---- MODULE Spec2Model ----
(***************************************************************************)
(* The User service of go-clean-architecture: the use-case layer           *)
(* (UserUseCase) over the GORM repository (userRepository) and the users   *)
(* table that AutoMigrate derives from entity.User.  Every request is a    *)
(* process; every repository call of a use-case method is one atomic step  *)
(* (one SQL statement), so requests interleave between repository calls.   *)
(* Phone and the timestamps are left out: no decision of the code reads    *)
(* them.                                                                   *)
(***************************************************************************)
EXTENDS Integers, Sequences, FiniteSets, TLC

\* ---------------------------------------------------------------- bounds
MaxUsers == 3
NumProcs == 2

Procs == 1..NumProcs
RowIds == 1..MaxUsers
Ids == 0..MaxUsers
Names == {"Ann", "Bob"}
Emails == {"a@x.com", "b@x.com"}

\* ---------------------------------------------------------------- errors
NoError == "nil"
ErrUserNotFound == "user not found"
ErrInvalidUserName == "invalid user name"
ErrInvalidUserEmail == "invalid user email"
ErrUserAlreadyExists == "user already exists"
ErrInvalidUserID == "invalid user ID"
ErrEmailTaken == "email already taken by another user"
\* what the driver reports for SQLSTATE 23505 (unique_violation)
ErrPgUniqueViolation == "pq: duplicate key value violates unique constraint"
\* any other failure of a statement: connection lost, context cancelled, deadline
ErrDatabase == "database error"
\* gorm.ErrDuplicatedKey / gorm.ErrRecordNotFound, the library's sentinels
GormErrDuplicatedKey == "gorm: duplicated key not allowed"

\* ---------------------------------------------------------------- entity
NoRow == [absent |-> TRUE]
NoUser == [nil |-> TRUE]

User(id, name, email, active) ==
  [ID |-> id, Name |-> name, Email |-> email, Active |-> active]

\* a validity check that forgets the email
IsValidNameOnly(u) == u.Name # ""

IsValid(u) == u.Name # "" /\ u.Email # ""

BeforeCreate(u) ==
  IF u.Name = "" THEN ErrInvalidUserName
  ELSE IF u.Email = "" THEN ErrInvalidUserEmail
  ELSE NoError

Activate(u) == [u EXCEPT !.Active = TRUE]

\* a Deactivate that flips the flag instead of clearing it
DeactivateToggles(u) == [u EXCEPT !.Active = ~@]

Deactivate(u) == [u EXCEPT !.Active = FALSE]

\* ---------------------------------------------------------------- table
\* A database is [rows, seq]: rows[i] is the row with primary key i (NoRow when
\* there is none), seq the last value of the id sequence.
Row(name, email, active, deleted) ==
  [name |-> name, email |-> email, active |-> active, deleted |-> deleted]

EmptyDB == [rows |-> [i \in RowIds |-> NoRow], seq |-> 0]

Present(db) == {i \in RowIds : db.rows[i] # NoRow}

\* the soft-delete scope GORM adds to every query on a model with DeletedAt
Live(db) == {i \in Present(db) : ~db.rows[i].deleted}

ToUser(db, i) == User(i, db.rows[i].name, db.rows[i].email, db.rows[i].active)

\* Email declared with a plain index: the table accepts any email
NoUniqueIndex(db, id, email) == FALSE

\* gorm:"uniqueIndex" on Email: a plain unique index, so it spans every row of
\* the table, soft-deleted ones included
UniqueViolation(db, id, email) ==
  \E j \in Present(db) : j # id /\ db.rows[j].email = email

\* gorm:"default:true" on Active: on INSERT a zero value is replaced by the default
DefaultActive(active) == IF active = FALSE THEN TRUE ELSE active

\* gorm.Config{Logger: ...}: TranslateError is left at its zero value
TranslateError == FALSE

Translate(err) ==
  IF TranslateError /\ err = ErrPgUniqueViolation THEN GormErrDuplicatedKey ELSE err

\* ---------------------------------------------------------------- GORM
\* A statement's outcome: the database after it, its error and RowsAffected,
\* and the entity as GORM leaves it in the caller's struct.
Outcome(db, err, rows, u) == [db |-> db, err |-> err, rows |-> rows, user |-> u]

\* INSERT INTO users ...: the id is drawn from the sequence when the entity
\* carries none (the draw is kept when the statement fails)
Insert(db, u) ==
  LET id == IF u.ID = 0 THEN db.seq + 1 ELSE u.ID
      seq == IF u.ID = 0 THEN db.seq + 1 ELSE db.seq
      active == DefaultActive(u.Active)
  IN IF id \in Present(db) \/ UniqueViolation(db, id, u.Email)
       THEN Outcome([db EXCEPT !.seq = seq], ErrPgUniqueViolation, 0, u)
       ELSE Outcome([rows |-> [db.rows EXCEPT ![id] = Row(u.Name, u.Email, active, FALSE)],
                     seq |-> seq],
                    NoError, 1, User(id, u.Name, u.Email, active))

\* db.Create(user): the BeforeCreate hook, then the INSERT
GormCreate(db, u) ==
  IF BeforeCreate(u) # NoError
    THEN Outcome(db, BeforeCreate(u), 0, u)
    ELSE LET r == Insert(db, u) IN [r EXCEPT !.err = Translate(@)]

\* UPDATE users SET <every column> WHERE id = ? AND deleted_at IS NULL
UpdateAll(db, u) ==
  IF u.ID \notin Live(db) THEN Outcome(db, NoError, 0, u)
  ELSE IF UniqueViolation(db, u.ID, u.Email) THEN Outcome(db, ErrPgUniqueViolation, 0, u)
  ELSE Outcome([db EXCEPT !.rows[u.ID] = Row(u.Name, u.Email, u.Active, FALSE)],
               NoError, 1, u)

\* INSERT ... ON CONFLICT (id) DO UPDATE SET <every column>, hooks skipped: the
\* row with this id, soft-deleted or missing, is written with deleted_at NULL
Upsert(db, u) ==
  IF UniqueViolation(db, u.ID, u.Email) THEN Outcome(db, ErrPgUniqueViolation, 0, u)
  ELSE LET active == DefaultActive(u.Active)
       IN Outcome([db EXCEPT !.rows[u.ID] = Row(u.Name, u.Email, active, FALSE)],
                  NoError, 1, [u EXCEPT !.Active = active])

\* db.Save(user): Create without a primary key; otherwise UPDATE of all fields
\* and, when that affects no row, the upsert
GormSave(db, u) ==
  IF u.ID = 0 THEN GormCreate(db, u)
  ELSE LET upd == UpdateAll(db, u)
       IN IF upd.err = NoError /\ upd.rows = 0
            THEN LET r == Upsert(db, u) IN [r EXCEPT !.err = Translate(@)]
            ELSE [upd EXCEPT !.err = Translate(@)]

\* ---------------------------------------------------------------- repository
Create(db, u) ==
  LET r == GormCreate(db, u)
  IN IF r.err = GormErrDuplicatedKey THEN [r EXCEPT !.err = ErrUserAlreadyExists] ELSE r

GetByID(db, id) ==
  IF id \in Live(db) THEN Outcome(db, NoError, 1, ToUser(db, id))
  ELSE Outcome(db, ErrUserNotFound, 0, NoUser)

\* First(): ORDER BY id LIMIT 1
GetByEmail(db, email) ==
  LET hits == {i \in Live(db) : db.rows[i].email = email}
  IN IF hits = {} THEN Outcome(db, ErrUserNotFound, 0, NoUser)
     ELSE Outcome(db, NoError, 1, ToUser(db, CHOOSE i \in hits : \A j \in hits : i <= j))

\* a buggy RowsAffected test in userRepository.Update: NotFound after a write
UpdateRowsInverted(db, u) ==
  LET r == GormSave(db, u)
  IN IF r.err # NoError
       THEN IF r.err = GormErrDuplicatedKey THEN [r EXCEPT !.err = ErrUserAlreadyExists] ELSE r
     ELSE IF r.rows # 0 THEN [r EXCEPT !.err = ErrUserNotFound]
     ELSE r

Update(db, u) ==
  LET r == GormSave(db, u)
  IN IF r.err # NoError
       THEN IF r.err = GormErrDuplicatedKey THEN [r EXCEPT !.err = ErrUserAlreadyExists] ELSE r
     ELSE IF r.rows = 0 THEN [r EXCEPT !.err = ErrUserNotFound]
     ELSE r

Delete(db, id) ==
  IF id \in Live(db)
    THEN Outcome([db EXCEPT !.rows[id].deleted = TRUE], NoError, 1, NoUser)
    ELSE Outcome(db, ErrUserNotFound, 0, NoUser)

Count(db) == Cardinality(Live(db))

\* the live rows newest first: created_at is set once, on insert, so it orders
\* the rows as their ids do
RECURSIVE NewestFirst(_, _)
NewestFirst(db, ids) ==
  IF ids = {} THEN <<>>
  ELSE LET i == CHOOSE k \in ids : \A j \in ids : j <= k
       IN <<ToUser(db, i)>> \o NewestFirst(db, ids \ {i})

\* Limit(limit).Offset(offset).Order("created_at DESC").Find: GORM leaves out a
\* LIMIT or OFFSET clause whose value is not positive
GetAll(db, limit, offset) ==
  LET all == NewestFirst(db, Live(db))
      from == IF offset > 0 THEN offset + 1 ELSE 1
      upto == IF limit > 0 /\ from + limit - 1 < Len(all) THEN from + limit - 1 ELSE Len(all)
  IN SubSeq(all, from, upto)

\* a statement that fails before it takes effect: connection lost, context
\* cancelled or past its deadline
Failed(db) == Outcome(db, ErrDatabase, 0, NoUser)

\* ---------------------------------------------------------------- requests
VARIABLES
  db,      \* the users table and its id sequence
  pc,      \* pc[p]: "idle", the repository call request p makes next, or "done"
  req,     \* req[p]: the use-case method request p runs, with its arguments
  local,   \* local[p]: the entity the method holds between its repository calls
  result,  \* result[p]: the error the method returned
  hist,    \* hist[p]: what request p did (not program state; read by the properties)
  list,    \* list[p]: the GetAllUsers call or GET /users request p runs
  mw       \* mw[p]: timeoutMiddleware and the handler goroutine of HTTP request p

vars == <<db, pc, req, local, result, hist, list, mw>>

\* inputs: the entities a caller hands to CreateUser and UpdateUser
ValidUsers == {User(0, n, e, a) : n \in Names, e \in Emails, a \in BOOLEAN}
InvalidUsers == {User(0, "", "a@x.com", TRUE), User(0, "Ann", "", TRUE), User(0, "", "", TRUE)}
Payloads == ValidUsers \cup InvalidUsers

\* UpdateUser bodies that carry an id of their own ("id" is a bound JSON field)
ForeignIdUsers == {User(i, "Ann", "b@x.com", TRUE) : i \in {1, MaxUsers}}
UpdatePayloads == Payloads \cup ForeignIdUsers

Request(op, id, u) == [op |-> op, id |-> id, user |-> u]
NoRequest == Request("none", 0, NoUser)

\* calls: the repository calls made, in order; wrote: one of them changed a row;
\* failedAt: the position in calls of the first call that failed with ErrDatabase
\* (0: none); clean: no other request changed a row while this one was running;
\* db0: the database when the method was entered; db1: the database after the
\* request's latest step
NoHistory ==
  [calls |-> <<>>, wrote |-> FALSE, failedAt |-> 0, clean |-> TRUE,
   db0 |-> EmptyDB, db1 |-> EmptyDB]

\* page, pageSize: the arguments GetAllUsers was called with; limit, offset: the
\* ones it passed to GetAll; calls: the repository calls made; users, total, err:
\* what it returned; via: "usecase" for a direct call, "http" for GET /users;
\* query, resp: the query string and the response of the HTTP request
NoResponse == [status |-> 0, page |-> 0, page_size |-> 0, total |-> 0, total_pages |-> 0, items |-> <<>>]
NoParam == [set |-> FALSE, val |-> <<>>]
NoList ==
  [pc |-> "idle", via |-> "none", page |-> 0, pageSize |-> 0, limit |-> 0, offset |-> 0,
   calls |-> <<>>, users |-> <<>>, total |-> 0, err |-> NoError,
   query |-> [page |-> NoParam, page_size |-> NoParam], resp |-> NoResponse]

\* m: where timeoutMiddleware is; h: where the goroutine running c.Next() is;
\* expired: ctx.Done() is closed; done: the done channel is closed; aborted:
\* c.Abort() was called; written: c.Writer.Written(); status: the status the
\* handler is about to send; writes: the responses written to c.Writer, in order
NoMiddleware ==
  [m |-> "idle", h |-> "none", expired |-> FALSE, done |-> FALSE, aborted |-> FALSE,
   written |-> FALSE, status |-> 0, writes |-> <<>>]

\* populated tables the service can be started on, each built by its own operations
Ann == User(0, "Ann", "a@x.com", TRUE)
Bob == User(0, "Bob", "b@x.com", TRUE)
OneUser == Create(EmptyDB, Ann).db
TwoUsers == Create(OneUser, Bob).db
OneDeleted == Delete(TwoUsers, 1).db
Stores == {EmptyDB, OneUser, TwoUsers, OneDeleted}

Init ==
  /\ db \in Stores
  /\ pc = [p \in Procs |-> "idle"]
  /\ req = [p \in Procs |-> NoRequest]
  /\ local = [p \in Procs |-> NoUser]
  /\ result = [p \in Procs |-> NoError]
  /\ hist = [p \in Procs |-> NoHistory]
  /\ list = [p \in Procs |-> NoList]
  /\ mw = [p \in Procs |-> NoMiddleware]

Running(p) == pc[p] \notin {"idle", "done"}

\* request p enters method op
Call(p, op, id, u) ==
  /\ pc[p] = "idle"
  /\ req' = [req EXCEPT ![p] = Request(op, id, u)]
  /\ hist' = [hist EXCEPT ![p].db0 = db, ![p].db1 = db]
  /\ UNCHANGED <<db, local, list, mw>>

At(p, op, label) == pc[p] = label /\ req[p].op = op

\* request p makes repository call `name`, whose outcome is r
Issue(p, name, r) ==
  /\ db' = r.db
  /\ hist' = [q \in Procs |->
       IF q = p
         THEN [hist[q] EXCEPT !.calls = Append(@, name),
                              !.wrote = @ \/ r.db.rows # db.rows,
                              !.failedAt = IF @ = 0 /\ r.err = ErrDatabase
                                             THEN Len(hist[q].calls) + 1 ELSE @,
                              !.db1 = r.db]
       ELSE IF Running(q) /\ r.db.rows # db.rows THEN [hist[q] EXCEPT !.clean = FALSE]
       ELSE hist[q]]
  /\ UNCHANGED <<req, list, mw>>

Return(p, err) ==
  /\ pc' = [pc EXCEPT ![p] = "done"]
  /\ result' = [result EXCEPT ![p] = err]

Goto(p, label) ==
  /\ pc' = [pc EXCEPT ![p] = label]
  /\ UNCHANGED result

\* ---------------------------------------------------------------- CreateUser
CreateUserCall(p, u) ==
  /\ Call(p, "CreateUser", 0, u)
  /\ IF ~IsValid(u) THEN Return(p, ErrInvalidUserName) ELSE Goto(p, "GetByEmail")

CreateUserGetByEmail(p) ==
  /\ At(p, "CreateUser", "GetByEmail")
  /\ \E r \in {GetByEmail(db, req[p].user.Email), Failed(db)} :
       /\ Issue(p, "GetByEmail", r)
       /\ IF r.err = NoError /\ r.user # NoUser
            THEN Return(p, ErrUserAlreadyExists)
            ELSE Goto(p, "Create")
  /\ UNCHANGED local

CreateUserCreate(p) ==
  /\ At(p, "CreateUser", "Create")
  /\ db.seq < MaxUsers
  /\ \E r \in {Create(db, req[p].user), Failed(db)} :
       /\ Issue(p, "Create", r)
       /\ local' = [local EXCEPT ![p] = r.user]
       /\ Return(p, r.err)

\* ---------------------------------------------------------------- GetUser
GetUserCall(p, id) ==
  /\ Call(p, "GetUser", id, NoUser)
  /\ IF id = 0 THEN Return(p, ErrInvalidUserID) ELSE Goto(p, "GetByID")

GetUserGetByID(p) ==
  /\ At(p, "GetUser", "GetByID")
  /\ \E r \in {GetByID(db, req[p].id), Failed(db)} :
       /\ Issue(p, "GetByID", r)
       /\ local' = [local EXCEPT ![p] = r.user]
       /\ IF r.err # NoError THEN Return(p, r.err)
          ELSE IF r.user = NoUser THEN Return(p, ErrUserNotFound)
          ELSE Return(p, NoError)

\* ---------------------------------------------------------------- UpdateUser
UpdateUserCall(p, id, u) ==
  /\ Call(p, "UpdateUser", id, u)
  /\ IF id = 0 THEN Return(p, ErrInvalidUserID) ELSE Goto(p, "GetByID")

UpdateUserGetByID(p) ==
  /\ At(p, "UpdateUser", "GetByID")
  /\ \E r \in {GetByID(db, req[p].id), Failed(db)} :
       /\ Issue(p, "GetByID", r)
       /\ local' = [local EXCEPT ![p] = r.user]
       /\ IF r.err # NoError THEN Return(p, r.err)
          ELSE IF r.user = NoUser THEN Return(p, ErrUserNotFound)
          ELSE IF ~IsValid(req[p].user) THEN Return(p, ErrInvalidUserName)
          ELSE IF req[p].user.Email # r.user.Email THEN Goto(p, "GetByEmail")
          ELSE Goto(p, "Update")

\* an email lookup whose result is not looked at (err != nil for err == nil)
UpdateUserGetByEmailIgnored(p) ==
  /\ At(p, "UpdateUser", "GetByEmail")
  /\ \E r \in {GetByEmail(db, req[p].user.Email), Failed(db)} :
       /\ Issue(p, "GetByEmail", r)
       /\ IF r.err # NoError /\ r.user # NoUser /\ r.user.ID # req[p].id
            THEN Return(p, ErrEmailTaken)
            ELSE Goto(p, "Update")
  /\ UNCHANGED local

UpdateUserGetByEmail(p) ==
  /\ At(p, "UpdateUser", "GetByEmail")
  /\ \E r \in {GetByEmail(db, req[p].user.Email), Failed(db)} :
       /\ Issue(p, "GetByEmail", r)
       /\ IF r.err = NoError /\ r.user # NoUser /\ r.user.ID # req[p].id
            THEN Return(p, ErrEmailTaken)
            ELSE Goto(p, "Update")
  /\ UNCHANGED local

\* an Update that trusts the id in the body (user.ID = id forgotten)
UpdateUserUpdateUnpinned(p) ==
  /\ At(p, "UpdateUser", "Update")
  /\ \E r \in {Update(db, req[p].user), Failed(db)} :
       /\ Issue(p, "Update", r)
       /\ Return(p, r.err)
  /\ UNCHANGED local

UpdateUserUpdate(p) ==
  /\ At(p, "UpdateUser", "Update")
  /\ \E r \in {Update(db, [req[p].user EXCEPT !.ID = req[p].id]), Failed(db)} :
       /\ Issue(p, "Update", r)
       /\ Return(p, r.err)
  /\ UNCHANGED local

\* ---------------------------------------------------------------- DeleteUser
\* a DeleteUser without the id == 0 test
DeleteUserCallUnchecked(p, id) ==
  /\ Call(p, "DeleteUser", id, NoUser)
  /\ Goto(p, "GetByID")

DeleteUserCall(p, id) ==
  /\ Call(p, "DeleteUser", id, NoUser)
  /\ IF id = 0 THEN Return(p, ErrInvalidUserID) ELSE Goto(p, "GetByID")

DeleteUserGetByID(p) ==
  /\ At(p, "DeleteUser", "GetByID")
  /\ \E r \in {GetByID(db, req[p].id), Failed(db)} :
       /\ Issue(p, "GetByID", r)
       /\ local' = [local EXCEPT ![p] = r.user]
       /\ IF r.err # NoError THEN Return(p, r.err)
          ELSE IF r.user = NoUser THEN Return(p, ErrUserNotFound)
          ELSE Goto(p, "Delete")

DeleteUserDelete(p) ==
  /\ At(p, "DeleteUser", "Delete")
  /\ \E r \in {Delete(db, req[p].id), Failed(db)} :
       /\ Issue(p, "Delete", r)
       /\ Return(p, r.err)
  /\ UNCHANGED local

\* ---------------------------------------------------------------- ActivateUser / DeactivateUser
\* user.Activate() in ActivateUser, user.Deactivate() in DeactivateUser
Flip(op, u) == IF op = "ActivateUser" THEN Activate(u) ELSE Deactivate(u)

\* the GetUser call both methods start with
FetchUser(p, op) ==
  /\ At(p, op, "GetByID")
  /\ \E r \in {GetByID(db, req[p].id), Failed(db)} :
       /\ Issue(p, "GetByID", r)
       /\ IF r.err # NoError THEN Return(p, r.err) /\ local' = [local EXCEPT ![p] = NoUser]
          ELSE IF r.user = NoUser
            THEN Return(p, ErrUserNotFound) /\ local' = [local EXCEPT ![p] = NoUser]
          ELSE Goto(p, "Update") /\ local' = [local EXCEPT ![p] = Flip(op, r.user)]

\* the Update of the whole entity both methods end with
PersistUser(p, op) ==
  /\ At(p, op, "Update")
  /\ \E r \in {Update(db, local[p]), Failed(db)} :
       /\ Issue(p, "Update", r)
       /\ Return(p, r.err)
  /\ UNCHANGED local

ActivateUserCall(p, id) ==
  /\ Call(p, "ActivateUser", id, NoUser)
  /\ IF id = 0 THEN Return(p, ErrInvalidUserID) ELSE Goto(p, "GetByID")

ActivateUserGetUser(p) == FetchUser(p, "ActivateUser")

ActivateUserUpdate(p) == PersistUser(p, "ActivateUser")

DeactivateUserCall(p, id) ==
  /\ Call(p, "DeactivateUser", id, NoUser)
  /\ IF id = 0 THEN Return(p, ErrInvalidUserID) ELSE Goto(p, "GetByID")

DeactivateUserGetUser(p) == FetchUser(p, "DeactivateUser")

DeactivateUserUpdate(p) == PersistUser(p, "DeactivateUser")

\* ---------------------------------------------------------------- specification
Next ==
  \E p \in Procs :
    \/ \E u \in Payloads : CreateUserCall(p, u)
    \/ CreateUserGetByEmail(p)
    \/ CreateUserCreate(p)
    \/ \E id \in Ids : GetUserCall(p, id)
    \/ GetUserGetByID(p)
    \/ \E id \in Ids, u \in UpdatePayloads : UpdateUserCall(p, id, u)
    \/ UpdateUserGetByID(p)
    \/ UpdateUserGetByEmail(p)
    \/ UpdateUserUpdate(p)
    \/ \E id \in Ids : DeleteUserCall(p, id)
    \/ DeleteUserGetByID(p)
    \/ DeleteUserDelete(p)
    \/ \E id \in Ids : ActivateUserCall(p, id)
    \/ ActivateUserGetUser(p)
    \/ ActivateUserUpdate(p)
    \/ \E id \in Ids : DeactivateUserCall(p, id)
    \/ DeactivateUserGetUser(p)
    \/ DeactivateUserUpdate(p)

Spec == Init /\ [][Next]_vars

\* ---------------------------------------------------------------- properties
Done(p, op) == pc[p] = "done" /\ req[p].op = op

Faulted(p) == hist[p].failedAt # 0

Holders(d, email) == {i \in Present(d) : d.rows[i].email = email}

LiveHolders(d, email) == {i \in Live(d) : d.rows[i].email = email}

\* C1: in every reachable state, whatever the interleaving of the requests'
\* repository calls, no two non-deleted users have the same email.
EmailUniqueAmongLive ==
  \A i, j \in Live(db) : i # j => db.rows[i].email # db.rows[j].email

\* C1 witness: two CreateUser requests with the same email both passed the
\* GetByEmail pre-check, both reached Create, and only one was stored.
EmailUniqueWitness ==
  \E p, q \in Procs :
    /\ p # q /\ Done(p, "CreateUser") /\ Done(q, "CreateUser")
    /\ req[p].user.Email = req[q].user.Email
    /\ hist[p].calls = <<"GetByEmail", "Create">> /\ hist[q].calls = <<"GetByEmail", "Create">>
    /\ ~Faulted(p) /\ ~Faulted(q)
    /\ result[p] = NoError /\ result[q] # NoError
    /\ Cardinality(LiveHolders(db, req[p].user.Email)) = 1

\* C2: of two CreateUser requests with valid users and the same email, on a table
\* where no row holds that email and with no repository failure, exactly one
\* succeeds, the other fails with ErrUserAlreadyExists, and one record holds the
\* email afterwards; also when both passed the GetByEmail pre-check.
CreateRaceAlreadyExists ==
  \A p, q \in Procs :
    LET e == req[p].user.Email
    IN ( /\ p # q /\ Done(p, "CreateUser") /\ Done(q, "CreateUser")
         /\ req[p].user.Name # "" /\ req[q].user.Name # ""
         /\ e # "" /\ req[q].user.Email = e
         /\ ~Faulted(p) /\ ~Faulted(q)
         /\ (Holders(hist[p].db0, e) = {} \/ Holders(hist[q].db0, e) = {}) )
       => /\ {result[p], result[q]} = {NoError, ErrUserAlreadyExists}
          /\ Cardinality(Holders(db, e)) = 1

\* C3 as stated: CreateUser and UpdateUser with an empty name or an empty email
\* fail with InvalidName or InvalidEmail and make no repository call, for every id.
ValidityGateNoCall ==
  \A p \in Procs :
    ( /\ (Done(p, "CreateUser") \/ Done(p, "UpdateUser"))
      /\ (req[p].user.Name = "" \/ req[p].user.Email = "") )
    => /\ result[p] \in {ErrInvalidUserName, ErrInvalidUserEmail}
       /\ hist[p].calls = <<>>

\* C3 amended: with an empty name or an empty email, CreateUser fails with
\* InvalidName and makes no repository call; UpdateUser makes no repository call
\* but the GetByID read, never writes, and fails with InvalidID when id = 0 (no
\* call), with GetByID's error when that read fails, and with InvalidName otherwise.
ValidityGate ==
  \A p \in Procs :
    (req[p].op \in {"CreateUser", "UpdateUser"} /\ (req[p].user.Name = "" \/ req[p].user.Email = ""))
    => /\ pc[p] \in {"GetByID", "done"}
       /\ ~hist[p].wrote
       /\ pc[p] = "done" =>
            IF req[p].op = "CreateUser"
              THEN result[p] = ErrInvalidUserName /\ hist[p].calls = <<>>
            ELSE IF req[p].id = 0
              THEN result[p] = ErrInvalidUserID /\ hist[p].calls = <<>>
            ELSE /\ hist[p].calls = <<"GetByID">>
                 /\ result[p] = IF Faulted(p) THEN ErrDatabase
                                ELSE IF local[p] = NoUser THEN ErrUserNotFound
                                ELSE ErrInvalidUserName

\* C3 witness: an UpdateUser of an existing user with an empty name or email has
\* read the record and failed with InvalidName; a CreateUser was turned away too.
ValidityGateWitness ==
  \E p, q \in Procs :
    /\ Done(p, "UpdateUser") /\ req[p].user.Email = ""
    /\ result[p] = ErrInvalidUserName /\ hist[p].calls = <<"GetByID">>
    /\ Done(q, "CreateUser") /\ req[q].user.Name = "" /\ result[q] = ErrInvalidUserName

\* C4: the active flag of a stored user changes only by the Update call of an
\* ActivateUser or DeactivateUser request; no step of CreateUser, GetUser,
\* UpdateUser or DeleteUser changes the active flag of an existing user.
ActiveOnlyByActivation ==
  [][\A i \in Present(db) :
       db'.rows[i].active # db.rows[i].active
       => \E p \in Procs : /\ req[p].op \in {"ActivateUser", "DeactivateUser"}
                           /\ pc[p] = "Update" /\ pc'[p] = "done"]_vars

\* C5: after a repository call of a request has failed with an error other than
\* NotFound, the request makes no later repository call and ends with that error.
NeverSwallowsRepositoryError ==
  \A p \in Procs :
    Faulted(p) => /\ Len(hist[p].calls) = hist[p].failedAt
                  /\ pc[p] = "done" => result[p] = ErrDatabase

\* C6: the Delete of a successful DeleteUser(id) lowers Count() by exactly one,
\* and in every state after DeleteUser(id) has succeeded GetByID(id), hence
\* GetUser(id), fails with NotFound.
DeleteHidesUser ==
  [][\A p \in Procs :
       /\ (pc[p] = "Delete" /\ pc'[p] = "done" /\ result'[p] = NoError)
          => Count(db') + 1 = Count(db)
       /\ (pc'[p] = "done" /\ req'[p].op = "DeleteUser" /\ result'[p] = NoError)
          => GetByID(db', req'[p].id).err = ErrUserNotFound]_vars

\* C7: the Update call of an UpdateUser, ActivateUser or DeactivateUser request
\* whose id is not a non-deleted record (DeleteUser got there first), when it
\* reaches the database, fails with NotFound and leaves every row as it was.
UpdateAfterDeleteNotFound ==
  [][\A p \in Procs :
       ( /\ pc[p] = "Update" /\ pc'[p] = "done"
         /\ req[p].id \notin Live(db)
         /\ result'[p] # ErrDatabase )
       => /\ result'[p] = ErrUserNotFound
          /\ db'.rows = db.rows]_vars

\* C8: when no non-deleted user holds email e and a soft-deleted one does, a
\* CreateUser with a valid user carrying e, and an UpdateUser changing an existing
\* user's email to e, succeed (no repository failure, no concurrent write).
DeletedEmailReusable ==
  \A p \in Procs :
    LET e == req[p].user.Email
        d == hist[p].db0
    IN ( /\ pc[p] = "done" /\ hist[p].clean /\ ~Faulted(p)
         /\ \/ req[p].op = "CreateUser"
            \/ req[p].op = "UpdateUser" /\ req[p].id \in Live(d)
         /\ req[p].user.Name # "" /\ e # ""
         /\ LiveHolders(d, e) = {} /\ Holders(d, e) # {} )
       => result[p] = NoError

\* C9: an UpdateUser that returned an error changed no row; when no other
\* request wrote meanwhile, every row is as it was when UpdateUser was entered.
FailedUpdateChangesNothing ==
  \A p \in Procs :
    (Done(p, "UpdateUser") /\ result[p] # NoError)
    => /\ ~hist[p].wrote
       /\ hist[p].clean => hist[p].db1.rows = hist[p].db0.rows

\* C9 witness: UpdateUser on an existing id with an empty name failed with
\* InvalidName, and another UpdateUser was turned down by the database at its
\* Update call; the rows are unchanged.
FailedUpdateWitness ==
  \E p, q \in Procs :
    /\ Done(p, "UpdateUser") /\ req[p].user.Name = "" /\ req[p].id \in Live(hist[p].db0)
    /\ result[p] = ErrInvalidUserName
    /\ Done(q, "UpdateUser") /\ result[q] = ErrPgUniqueViolation
    /\ hist[q].calls = <<"GetByID", "GetByEmail", "Update">>
    /\ hist[p].db1.rows = hist[p].db0.rows /\ hist[q].db1.rows = hist[q].db0.rows

\* C10: with no repository failure and no concurrent write, UpdateUser(id, user) of
\* an existing id with a valid user whose email differs from the stored one and
\* belongs to another non-deleted user fails with EmailTaken and writes nothing;
\* when the email equals the stored one, GetByEmail is never called and the
\* update succeeds, storing the submitted fields.
UpdateEmailCheck ==
  \A p \in Procs :
    LET e == req[p].user.Email
        id == req[p].id
        d == hist[p].db0
    IN /\ ( /\ req[p].op = "UpdateUser" /\ local[p] # NoUser /\ local[p].Email = e )
          => \A k \in 1..Len(hist[p].calls) : hist[p].calls[k] # "GetByEmail"
       /\ ( /\ Done(p, "UpdateUser") /\ hist[p].clean /\ ~Faulted(p)
            /\ req[p].user.Name # "" /\ e # "" /\ id \in Live(d) )
          => /\ (e # d.rows[id].email /\ LiveHolders(d, e) \ {id} # {})
                => /\ result[p] = ErrEmailTaken
                   /\ ~hist[p].wrote
                   /\ hist[p].db1.rows = d.rows
             /\ e = d.rows[id].email
                => /\ result[p] = NoError
                   /\ hist[p].calls = <<"GetByID", "Update">>
                   /\ hist[p].db1.rows = [d.rows EXCEPT ![id] =
                                             Row(req[p].user.Name, e, req[p].user.Active, FALSE)]

\* C10 witness: the two updates of scenario D, on a table with users 1 and 2:
\* UpdateUser(2, email of user 1) failed with EmailTaken, UpdateUser(1, own
\* email) succeeded.
UpdateEmailCheckWitness ==
  \E p, q \in Procs :
    /\ Done(p, "UpdateUser") /\ req[p].id = 2 /\ result[p] = ErrEmailTaken
    /\ hist[p].calls = <<"GetByID", "GetByEmail">>
    /\ Done(q, "UpdateUser") /\ req[q].id = 1 /\ result[q] = NoError
    /\ req[q].user.Email = req[p].user.Email
    /\ hist[q].calls = <<"GetByID", "Update">>
    /\ hist[p].clean /\ hist[q].clean /\ ~Faulted(p) /\ ~Faulted(q)

\* C11: the Update call of UpdateUser(id, user) changes no row but row id,
\* whatever ID the payload carries, and on success row id holds the submitted
\* fields; no step of any request removes a row or moves it to another id.
UpdatePinsId ==
  [][/\ \A p \in Procs :
          (At(p, "UpdateUser", "Update") /\ pc'[p] = "done")
          => /\ \A i \in RowIds \ {req[p].id} : db'.rows[i] = db.rows[i]
             /\ result'[p] = NoError
                => /\ db'.rows[req[p].id].name = req[p].user.Name
                   /\ db'.rows[req[p].id].email = req[p].user.Email
                   /\ Present(db') = Present(db)
     /\ Present(db) \subseteq Present(db')]_vars

\* C11 witness: UpdateUser(2, user) with ID 1 in the payload succeeded on a table
\* holding users 1 and 2: row 2 has the submitted name, row 1 is as it was.
UpdatePinsIdWitness ==
  \E p \in Procs :
    /\ Done(p, "UpdateUser") /\ result[p] = NoError
    /\ req[p].id = 2 /\ req[p].user.ID = 1
    /\ 1 \in Live(hist[p].db0) /\ hist[p].clean
    /\ hist[p].db1.rows[2].name = req[p].user.Name
    /\ hist[p].db1.rows[1] = hist[p].db0.rows[1]

\* C12: GetUser(0), UpdateUser(0, u) and DeleteUser(0), and ActivateUser(0) and
\* DeactivateUser(0) through GetUser, fail with InvalidID at once, for every u
\* and every table, without any repository call.
ZeroIdRejected ==
  \A p \in Procs :
    ( /\ req[p].op \in {"GetUser", "UpdateUser", "DeleteUser", "ActivateUser", "DeactivateUser"}
      /\ req[p].id = 0 )
    => /\ pc[p] = "done"
       /\ result[p] = ErrInvalidUserID
       /\ hist[p].calls = <<>>
       /\ hist[p].db1 = hist[p].db0

\* C12 witness: DeleteUser(0) and ActivateUser(0) have both returned InvalidID
\* on a table that holds users.
ZeroIdRejectedWitness ==
  \E p, q \in Procs :
    /\ Done(p, "DeleteUser") /\ req[p].id = 0 /\ result[p] = ErrInvalidUserID
    /\ Done(q, "ActivateUser") /\ req[q].id = 0 /\ result[q] = ErrInvalidUserID
    /\ Live(db) # {}

\* C14: with no repository failure and no concurrent write, ActivateUser(id) on
\* an existing user succeeds and leaves exactly active = TRUE on row id,
\* DeactivateUser(id) succeeds and leaves exactly active = FALSE, whatever the
\* flag was before: a repeated call succeeds again and changes nothing.
ActivationIdempotent ==
  \A p \in Procs :
    LET id == req[p].id
        d == hist[p].db0
    IN ( /\ pc[p] = "done" /\ req[p].op \in {"ActivateUser", "DeactivateUser"}
         /\ hist[p].clean /\ ~Faulted(p) /\ id \in Live(d) )
       => /\ result[p] = NoError
          /\ hist[p].db1.rows = [d.rows EXCEPT ![id].active = (req[p].op = "ActivateUser")]
          /\ d.rows[id].active = (req[p].op = "ActivateUser") => hist[p].db1.rows = d.rows

\* C14 witness: two DeactivateUser calls for the same active user, one after the
\* other, both succeeded; the second found the user inactive and left the table
\* as the first had left it.
ActivationIdempotentWitness ==
  \E p, q \in Procs :
    /\ p # q /\ Done(p, "DeactivateUser") /\ Done(q, "DeactivateUser")
    /\ req[p].id = req[q].id
    /\ result[p] = NoError /\ result[q] = NoError
    /\ hist[p].db0.rows[req[p].id].active
    /\ hist[q].db0 = hist[p].db1
    /\ hist[q].db1 = hist[q].db0
    /\ ~db.rows[req[p].id].active

\* ---------------------------------------------------------------- controller
StatusOK == 200
StatusCreated == 201
StatusBadRequest == 400
StatusNotFound == 404
StatusConflict == 409
StatusInternalServerError == 500

\* the switch on the use-case error in each handler of UserController
CreateUserStatus(err) ==
  IF err = NoError THEN StatusCreated
  ELSE IF err = ErrUserAlreadyExists THEN StatusConflict
  ELSE IF err \in {ErrInvalidUserName, ErrInvalidUserEmail} THEN StatusBadRequest
  ELSE StatusInternalServerError

GetUserStatus(err) ==
  IF err = NoError THEN StatusOK
  ELSE IF err = ErrUserNotFound THEN StatusNotFound
  ELSE IF err = ErrInvalidUserID THEN StatusBadRequest
  ELSE StatusInternalServerError

UpdateUserStatus(err) ==
  IF err = NoError THEN StatusOK
  ELSE IF err = ErrUserNotFound THEN StatusNotFound
  ELSE IF err \in {ErrInvalidUserID, ErrInvalidUserName, ErrInvalidUserEmail} THEN StatusBadRequest
  ELSE StatusInternalServerError

DeleteUserStatus(err) ==
  IF err = NoError THEN StatusOK
  ELSE IF err = ErrUserNotFound THEN StatusNotFound
  ELSE IF err = ErrInvalidUserID THEN StatusBadRequest
  ELSE StatusInternalServerError

ActivateUserStatus(err) ==
  IF err = NoError THEN StatusOK
  ELSE IF err = ErrUserNotFound THEN StatusNotFound
  ELSE StatusInternalServerError

DeactivateUserStatus(err) ==
  IF err = NoError THEN StatusOK
  ELSE IF err = ErrUserNotFound THEN StatusNotFound
  ELSE StatusInternalServerError

\* the status the handler of use-case method op answers with
HandlerStatus(op, err) ==
  CASE op = "CreateUser" -> CreateUserStatus(err)
    [] op = "GetUser" -> GetUserStatus(err)
    [] op = "UpdateUser" -> UpdateUserStatus(err)
    [] op = "DeleteUser" -> DeleteUserStatus(err)
    [] op = "ActivateUser" -> ActivateUserStatus(err)
    [] op = "DeactivateUser" -> DeactivateUserStatus(err)

\* C15: for every endpoint and every error its use-case method returns, the
\* handler answers 404 for NotFound, 400 for InvalidID, InvalidName and
\* InvalidEmail, 409 for AlreadyExists and 500 for any other error.
ErrorKindToStatus ==
  \A p \in Procs :
    (pc[p] = "done" /\ result[p] # NoError)
    => HandlerStatus(req[p].op, result[p]) =
         IF result[p] = ErrUserNotFound THEN StatusNotFound
         ELSE IF result[p] \in {ErrInvalidUserID, ErrInvalidUserName, ErrInvalidUserEmail}
           THEN StatusBadRequest
         ELSE IF result[p] = ErrUserAlreadyExists THEN StatusConflict
         ELSE StatusInternalServerError

\* C16: when an UpdateUser(id, .) and an ActivateUser(id) or DeactivateUser(id)
\* have both succeeded, in whatever interleaving, row id holds the name and
\* email the UpdateUser wrote.
ActivationKeepsUpdate ==
  \A p, q \in Procs :
    ( /\ Done(p, "UpdateUser") /\ result[p] = NoError
      /\ pc[q] = "done" /\ req[q].op \in {"ActivateUser", "DeactivateUser"}
      /\ result[q] = NoError /\ req[q].id = req[p].id
      /\ ~Faulted(p) /\ ~Faulted(q) )
    => /\ db.rows[req[p].id].name = req[p].user.Name
       /\ db.rows[req[p].id].email = req[p].user.Email

\* C19: a CreateUser or UpdateUser turned away because IsValid is false fails
\* with InvalidName when the name is empty and with InvalidEmail when the name
\* is not empty and the email is.
InvalidFieldNamed ==
  \A p \in Procs :
    ( /\ (Done(p, "CreateUser") \/ Done(p, "UpdateUser"))
      /\ (req[p].user.Name = "" \/ req[p].user.Email = "")
      /\ result[p] \in {ErrInvalidUserName, ErrInvalidUserEmail} )
    => result[p] = IF req[p].user.Name = "" THEN ErrInvalidUserName ELSE ErrInvalidUserEmail

\* ---------------------------------------------------------------- GET /users
\* strconv.Atoi on a query value, held as its sequence of characters: an optional
\* sign, then one or more decimal digits; anything else is an error
Digits == <<"0", "1", "2", "3", "4", "5", "6", "7", "8", "9">>

IsDigit(ch) == \E d \in 1..Len(Digits) : Digits[d] = ch

DigitValue(ch) == (CHOOSE d \in 1..Len(Digits) : Digits[d] = ch) - 1

RECURSIVE ParseDigits(_, _)
ParseDigits(s, acc) ==
  IF s = <<>> THEN acc ELSE ParseDigits(Tail(s), acc * 10 + DigitValue(Head(s)))

Atoi(s) ==
  LET signed == s # <<>> /\ Head(s) \in {"-", "+"}
      body == IF signed THEN Tail(s) ELSE s
  IN IF body = <<>> \/ \E i \in 1..Len(body) : ~IsDigit(body[i])
       THEN [n |-> 0, err |-> TRUE]
     ELSE [n |-> IF Head(s) = "-" THEN 0 - ParseDigits(body, 0) ELSE ParseDigits(body, 0),
           err |-> FALSE]

\* c.DefaultQuery: the parameter's value, or the default when the key is absent
DefaultQuery(param, default) == IF param.set THEN param.val ELSE default

\* UserController.GetAllUsers, the two query parameters
ControllerPage(query) ==
  LET page == Atoi(DefaultQuery(query.page, <<"1">>))
  IN IF page.err \/ page.n < 1 THEN 1 ELSE page.n

ControllerPageSize(query) ==
  LET pageSize == Atoi(DefaultQuery(query.page_size, <<"1", "0">>))
  IN IF pageSize.err \/ pageSize.n < 1 THEN 10 ELSE pageSize.n

\* UserUseCase.GetAllUsers, the normalisation of its two arguments
NormalPage(page) == IF page < 1 THEN 1 ELSE page

\* a normalisation without the upper bound
NormalPageSizeNoCap(pageSize) == IF pageSize < 1 THEN 10 ELSE pageSize

NormalPageSize(pageSize) == IF pageSize < 1 \/ pageSize > 100 THEN 10 ELSE pageSize

Offset(page, pageSize) == (NormalPage(page) - 1) * NormalPageSize(pageSize)

\* response.Paginated
Paginated(items, total, page, pageSize) ==
  [status |-> StatusOK, page |-> page, page_size |-> pageSize, total |-> total,
   total_pages |-> (total + pageSize - 1) \div pageSize, items |-> items]

\* response.InternalError
InternalError == [NoResponse EXCEPT !.status = StatusInternalServerError]

\* the controller's code after GetAllUsers has returned (nothing for a direct call)
Respond(l) ==
  IF l.via # "http" THEN l
  ELSE IF l.err # NoError THEN [l EXCEPT !.resp = InternalError]
  ELSE [l EXCEPT !.resp = Paginated(l.users, l.total, l.page, l.pageSize)]

\* inputs: the arguments of a direct call, and the query values of a request
Pages == {-1, 0, 1, 2}
PageSizes == {-1, 0, 1, 2, 10, 100, 101, 500}
Param(val) == [set |-> TRUE, val |-> val]
PageParams == {NoParam, Param(<<"0">>), Param(<<"2">>), Param(<<"x">>)}
PageSizeParams ==
  {NoParam, Param(<<"-", "1">>), Param(<<"2">>), Param(<<"1", "0", "1">>),
   Param(<<"5", "0", "0">>)}
Queries == [page : PageParams, page_size : PageSizeParams]

\* tables with more than one page of users
Cyd == User(0, "Cyd", "c@x.com", TRUE)
ThreeUsers == Create(TwoUsers, Cyd).db
MiddleDeleted == Delete(ThreeUsers, 2).db
ListStores == {OneDeleted, TwoUsers, ThreeUsers, MiddleDeleted}

ListInit ==
  /\ db \in ListStores
  /\ pc = [p \in Procs |-> "idle"]
  /\ req = [p \in Procs |-> NoRequest]
  /\ local = [p \in Procs |-> NoUser]
  /\ result = [p \in Procs |-> NoError]
  /\ hist = [p \in Procs |-> NoHistory]
  /\ list = [p \in Procs |-> NoList]
  /\ mw = [p \in Procs |-> NoMiddleware]

\* GetAllUsers is entered with (page, pageSize) and normalises them
Enter(p, via, query, page, pageSize) ==
  /\ list[p].pc = "idle"
  /\ list' = [list EXCEPT ![p] =
       [NoList EXCEPT !.pc = "GetAll", !.via = via, !.query = query,
                      !.page = page, !.pageSize = pageSize,
                      !.limit = NormalPageSize(pageSize),
                      !.offset = Offset(page, pageSize)]]
  /\ UNCHANGED <<db, pc, req, local, result, hist, mw>>

\* a caller invokes the use case directly
GetAllUsersCall(p, page, pageSize) == Enter(p, "usecase", NoList.query, page, pageSize)

\* GET /users: the controller parses the query and calls the use case
GetAllUsersRequest(p, query) ==
  Enter(p, "http", query, ControllerPage(query), ControllerPageSize(query))

\* users, err := uc.userRepo.GetAll(ctx, pageSize, offset)
GetAllUsersGetAll(p) ==
  /\ list[p].pc = "GetAll"
  /\ LET call == [name |-> "GetAll", limit |-> list[p].limit, offset |-> list[p].offset]
         l == [list[p] EXCEPT !.calls = Append(@, call)]
     IN \/ list' = [list EXCEPT ![p] =
               [l EXCEPT !.pc = "Count", !.users = GetAll(db, l.limit, l.offset)]]
        \/ list' = [list EXCEPT ![p] =
               Respond([l EXCEPT !.pc = "done", !.err = ErrDatabase])]
  /\ UNCHANGED <<db, pc, req, local, result, hist, mw>>

\* total, err := uc.userRepo.Count(ctx)
GetAllUsersCount(p) ==
  /\ list[p].pc = "Count"
  /\ LET call == [name |-> "Count", limit |-> 0, offset |-> 0]
         l == [list[p] EXCEPT !.calls = Append(@, call), !.pc = "done"]
     IN \/ list' = [list EXCEPT ![p] = Respond([l EXCEPT !.total = Count(db)])]
        \/ list' = [list EXCEPT ![p] =
               Respond([l EXCEPT !.users = <<>>, !.err = ErrDatabase])]
  /\ UNCHANGED <<db, pc, req, local, result, hist, mw>>

ListNext ==
  \E p \in Procs :
    \/ \E page \in Pages, pageSize \in PageSizes : GetAllUsersCall(p, page, pageSize)
    \/ \E query \in Queries : GetAllUsersRequest(p, query)
    \/ GetAllUsersGetAll(p)
    \/ GetAllUsersCount(p)

ListSpec == ListInit /\ [][ListNext]_vars

Entered(p) == list[p].pc # "idle"

Returned(p) == list[p].pc = "done"

\* the arguments of q are what GetAllUsers is said to read those of p as
ReadsAs(p, q) ==
  /\ list[q].page = (IF list[p].page < 1 THEN 1 ELSE list[p].page)
  /\ list[q].pageSize =
       (IF list[p].pageSize < 1 \/ list[p].pageSize > 100 THEN 10 ELSE list[p].pageSize)

\* C13: GetAllUsers normalises before querying: a call with page < 1 behaves as the
\* call with page = 1, and a call with pageSize < 1 or > 100 as the call with
\* pageSize = 10 (the same GetAll(limit, offset) and Count calls and, when the same
\* calls succeed, the same users and total); the offset is (page - 1) * pageSize
\* of the normalised values and the limit is never above 100.
PaginationNormalized ==
  /\ \A p \in Procs :
       Entered(p)
       => /\ list[p].limit >= 1 /\ list[p].limit <= 100
          /\ list[p].offset = ((IF list[p].page < 1 THEN 1 ELSE list[p].page) - 1) * list[p].limit
          /\ \A i \in 1..Len(list[p].calls) :
               list[p].calls[i] =
                 IF i = 1 THEN [name |-> "GetAll", limit |-> list[p].limit, offset |-> list[p].offset]
                 ELSE [name |-> "Count", limit |-> 0, offset |-> 0]
  /\ \A p, q \in Procs :
       (Entered(p) /\ Entered(q) /\ ReadsAs(p, q))
       => /\ list[p].limit = list[q].pageSize /\ list[p].limit = list[q].limit
          /\ list[p].offset = list[q].offset
          /\ (Returned(p) /\ Returned(q) /\ Len(list[p].calls) = Len(list[q].calls)
              /\ list[p].err = list[q].err)
             => /\ list[p].calls = list[q].calls
                /\ list[p].users = list[q].users
                /\ list[p].total = list[q].total

\* C13 witness: GetAllUsers(0, 500) and GetAllUsers(1, 10) both returned the same
\* non-empty page of users, and GetAllUsers(-1, 1) returned the newest user only.
PaginationNormalizedWitness ==
  \E p, q \in Procs :
    /\ p # q /\ Returned(p) /\ Returned(q)
    /\ list[p].page = 0 /\ list[p].pageSize = 500
    /\ list[q].page = 1 /\ list[q].pageSize = 10
    /\ list[p].err = NoError /\ list[q].err = NoError
    /\ Len(list[p].users) > 1 /\ list[p].users = list[q].users
    /\ list[p].total = Len(list[p].users)

\* C18: for every GET /users request, the page_size of the paginated response is
\* the page size GetAllUsers used for the repository query, and total_pages is
\* ceil(total / that page size).
ReportedPageSizeIsUsed ==
  \A p \in Procs :
    (list[p].via = "http" /\ Returned(p) /\ list[p].resp.status = StatusOK)
    => /\ list[p].resp.page_size = list[p].calls[1].limit
       /\ list[p].resp.total_pages =
            (list[p].resp.total + list[p].calls[1].limit - 1) \div list[p].calls[1].limit

\* ---------------------------------------------------------------- timeoutMiddleware
TimeoutInit ==
  /\ db = OneUser
  /\ pc = [p \in Procs |-> "idle"]
  /\ req = [p \in Procs |-> NoRequest]
  /\ local = [p \in Procs |-> NoUser]
  /\ result = [p \in Procs |-> NoError]
  /\ hist = [p \in Procs |-> NoHistory]
  /\ list = [p \in Procs |-> NoList]
  /\ mw = [p \in Procs |-> NoMiddleware]

Step(p, m) ==
  /\ mw' = [mw EXCEPT ![p] = m]
  /\ UNCHANGED <<db, pc, req, local, result, hist, list>>

\* c.JSON on the shared writer: the body is written whether or not an earlier
\* response was
Write(m, by, status) ==
  [m EXCEPT !.written = TRUE, !.writes = Append(@, [by |-> by, status |-> status])]

\* ctx, cancel := context.WithTimeout(...); done := make(chan struct{}); go func()
TimeoutMiddlewareStart(p) ==
  /\ mw[p].m = "idle"
  /\ Step(p, [mw[p] EXCEPT !.m = "select", !.h = "spawned"])

\* the deadline of the request context passes
ContextDone(p) ==
  /\ mw[p].m # "idle" /\ ~mw[p].expired
  /\ Step(p, [mw[p] EXCEPT !.expired = TRUE])

\* the goroutine calls c.Next(), which runs the handler unless the chain was aborted
HandlerNext(p) ==
  /\ mw[p].h = "spawned"
  /\ Step(p, IF mw[p].aborted THEN [mw[p] EXCEPT !.h = "finished", !.done = TRUE]
             ELSE [mw[p] EXCEPT !.h = "running"])

\* the handler (GET /users/:id) runs its use case under the request context; past
\* the deadline the repository call fails
HandlerUseCase(p) ==
  /\ mw[p].h = "running"
  /\ \E err \in (IF mw[p].expired THEN {ErrDatabase}
                 ELSE {NoError, ErrUserNotFound, ErrDatabase}) :
       Step(p, [mw[p] EXCEPT !.h = "respond", !.status = GetUserStatus(err)])

\* the handler sends its response
HandlerRespond(p) ==
  /\ mw[p].h = "respond"
  /\ Step(p, [Write(mw[p], "handler", mw[p].status) EXCEPT !.h = "responded"])

\* c.Next() returns; defer close(done)
HandlerReturn(p) ==
  /\ mw[p].h = "responded"
  /\ Step(p, [mw[p] EXCEPT !.h = "finished", !.done = TRUE])

\* select: case <-done
SelectDone(p) ==
  /\ mw[p].m = "select" /\ mw[p].done
  /\ Step(p, [mw[p] EXCEPT !.m = "returned"])

\* select: case <-ctx.Done()
SelectTimeout(p) ==
  /\ mw[p].m = "select" /\ mw[p].expired
  /\ Step(p, [mw[p] EXCEPT !.m = "check"])

\* if !c.Writer.Written()
CheckWritten(p) ==
  /\ mw[p].m = "check"
  /\ Step(p, [mw[p] EXCEPT !.m = IF mw[p].written THEN "abort" ELSE "write"])

\* response.InternalError(c, "Request timeout", ...)
WriteTimeout(p) ==
  /\ mw[p].m = "write"
  /\ Step(p, [Write(mw[p], "timeout", InternalError.status) EXCEPT !.m = "abort"])

\* c.Abort(); return
Abort(p) ==
  /\ mw[p].m = "abort"
  /\ Step(p, [mw[p] EXCEPT !.m = "returned", !.aborted = TRUE])

TimeoutNext ==
  \E p \in Procs :
    \/ TimeoutMiddlewareStart(p)
    \/ ContextDone(p)
    \/ HandlerNext(p)
    \/ HandlerUseCase(p)
    \/ HandlerRespond(p)
    \/ HandlerReturn(p)
    \/ SelectDone(p)
    \/ SelectTimeout(p)
    \/ CheckWritten(p)
    \/ WriteTimeout(p)
    \/ Abort(p)

TimeoutSpec == TimeoutInit /\ [][TimeoutNext]_vars

\* C17: for every request passing through timeoutMiddleware, at most one response
\* is written: the handler and the timeout branch never both write, and the
\* handler does not write after the timeout response was sent.
SingleResponse ==
  \A p \in Procs :
    /\ Len(mw[p].writes) <= 1
    /\ \A i, j \in 1..Len(mw[p].writes) :
         (i < j /\ mw[p].writes[i].by = "timeout") => mw[p].writes[j].by # "handler"

====
